---- MODULE Spec2Model ----
(***************************************************************************)
(* make-self-extracting-bin: one run of the command line tool, from the    *)
(* parsed options to process exit.  Paths and file names are sequences of  *)
(* one-character strings so that path.parse / path.resolve / path.relative *)
(* are computed character by character and segment by segment, as Node's   *)
(* POSIX implementation does.                                              *)
(***************************************************************************)
EXTENDS Integers, Sequences, FiniteSets, TLC

(***************************************************************************)
(* Bounds of the model.                                                    *)
(***************************************************************************)
MaxFiles == 2      \* inputs of a run, all options varied
MaxListed == 3     \* inputs of a run, file list and root varied
MaxNameLen == 4    \* characters of the one input of a run, its name varied

(***************************************************************************)
(* Optional values: <<>> is JavaScript's undefined, <<v>> is the value v.  *)
(***************************************************************************)
Undefined == <<>>
Some(v) == <<v>>
Val(o) == o[1]

(***************************************************************************)
(* Sequence helpers.                                                       *)
(***************************************************************************)
Last(s) == s[Len(s)]
Range(s) == {s[i] : i \in 1..Len(s)}

RECURSIVE SeqsUpTo(_, _)
SeqsUpTo(S, n) ==
  IF n = 0 THEN {<<>>}
  ELSE LET shorter == SeqsUpTo(S, n - 1)
       IN  shorter \cup {Append(s, x) : s \in {t \in shorter : Len(t) = n - 1}, x \in S}

(***************************************************************************)
(* POSIX path functions of Node's path module, as used by the tool.        *)
(***************************************************************************)
Slash == "/"
Dot == "."

\* process.cwd(): the directory the tool is started in.
Cwd == <<"/", "w">>

\* The non-empty segments of a path, in order (runs of "/" separate once).
RECURSIVE SplitFrom(_, _, _)
SplitFrom(p, i, cur) ==
  IF i > Len(p) THEN (IF cur = <<>> THEN <<>> ELSE <<cur>>)
  ELSE IF p[i] = Slash
       THEN (IF cur = <<>> THEN <<>> ELSE <<cur>>) \o SplitFrom(p, i + 1, <<>>)
       ELSE SplitFrom(p, i + 1, Append(cur, p[i]))

Split(p) == SplitFrom(p, 1, <<>>)

RECURSIVE Join(_)
Join(segs) ==
  IF segs = <<>> THEN <<>>
  ELSE IF Len(segs) = 1 THEN segs[1]
  ELSE segs[1] \o <<Slash>> \o Join(Tail(segs))

IsAbsolute(p) == Len(p) > 0 /\ p[1] = Slash

DotSeg == <<Dot>>
DotDotSeg == <<Dot, Dot>>

\* normalizeString: drop ".", let ".." remove the segment before it; above
\* the root of an absolute path ".." is dropped.
RECURSIVE NormalizeSegs(_, _, _)
NormalizeSegs(segs, acc, allowAboveRoot) ==
  IF segs = <<>> THEN acc
  ELSE LET s == Head(segs)
           rest == Tail(segs)
       IN  IF s = DotSeg THEN NormalizeSegs(rest, acc, allowAboveRoot)
           ELSE IF s = DotDotSeg
                THEN IF acc # <<>> /\ Last(acc) # DotDotSeg
                     THEN NormalizeSegs(rest, SubSeq(acc, 1, Len(acc) - 1), allowAboveRoot)
                     ELSE IF allowAboveRoot
                          THEN NormalizeSegs(rest, Append(acc, s), allowAboveRoot)
                          ELSE NormalizeSegs(rest, acc, allowAboveRoot)
                ELSE NormalizeSegs(rest, Append(acc, s), allowAboveRoot)

\* path.resolve(p), as the segments below "/".
ResolveSegs(p) ==
  NormalizeSegs(Split(IF IsAbsolute(p) THEN p ELSE Cwd \o <<Slash>> \o p), <<>>, FALSE)

\* path.resolve(p), as a string.
Resolve(p) == <<Slash>> \o Join(ResolveSegs(p))

RECURSIVE CommonPrefixLen(_, _)
CommonPrefixLen(a, b) ==
  IF a = <<>> \/ b = <<>> \/ Head(a) # Head(b) THEN 0
  ELSE 1 + CommonPrefixLen(Tail(a), Tail(b))

\* path.relative(from, to): resolve both, climb out of what is left of
\* `from` after the common leading segments, then descend into `to`.
Relative(from, to) ==
  LET f == ResolveSegs(from)
      t == ResolveSegs(to)
      k == CommonPrefixLen(f, t)
  IN  Join([i \in 1..(Len(f) - k) |-> DotDotSeg] \o SubSeq(t, k + 1, Len(t)))

\* path.parse(p).base: the last segment, trailing separators ignored.
ParseBase(p) == IF Split(p) = <<>> THEN <<>> ELSE Last(Split(p))

\* Index of the last "." of a name, 0 when there is none.
RECURSIVE LastDotFrom(_, _)
LastDotFrom(b, i) ==
  IF i = 0 THEN 0 ELSE IF b[i] = Dot THEN i ELSE LastDotFrom(b, i - 1)

LastDot(b) == LastDotFrom(b, Len(b))

\* An extension taken from any last ".", a leading one included.
ParseExtOfDotFile(p) ==
  LET b == ParseBase(p)
      d == LastDot(b)
  IN  IF d = 0 THEN <<>> ELSE SubSeq(b, d, Len(b))

\* path.parse(p).ext: from the last "." of the base to its end; empty when the
\* base has no ".", when its last "." is its first character, or when the
\* base is "..".
ParseExt(p) ==
  LET b == ParseBase(p)
      d == LastDot(b)
  IN  IF d = 0 \/ d = 1 \/ b = DotDotSeg THEN <<>> ELSE SubSeq(b, d, Len(b))


(***************************************************************************)
(* The inputs of a run: the option values command-line-args returns, and   *)
(* the script files on disk.                                               *)
(***************************************************************************)
ArchiveTypes == {"tar", "zip", "rar"}

\* A --compress-level is carried in tenths, so that 15 is the number 1.5:
\* the levels 0, 9, 10 and 1.5.
CompressLevels == {Undefined, Some(0), Some(90), Some(100), Some(15)}

InlineScripts == {Undefined, Some(""), Some("echo inline")}
PreInlineScripts == {Undefined, Some("echo inline")}

\* Script files on disk: two with text, an empty one, and one that cannot
\* be read.
ReadFile(f) ==
  CASE f = "pre.sh" -> Some("echo pre file")
    [] f = "post.sh" -> Some("echo post file")
    [] f = "empty.sh" -> Some("")
    [] OTHER -> Undefined

PreScriptFiles == {Undefined, Some("pre.sh"), Some("missing.sh")}
PostScriptFiles == {Undefined, Some("post.sh"), Some("empty.sh"), Some("missing.sh")}

\* Input files: the same base name in the start directory and below it.
InputPaths ==
  { <<"a", ".", "s", "h">>,
    <<"d", "/", "a", ".", "s", "h">> }

Roots == {Undefined, Some(<<"/", "w">>), Some(<<"d">>)}

FileLists == SeqsUpTo(InputPaths, MaxFiles)

OptionsType ==
  [ type : ArchiveTypes,
    compressLevel : CompressLevels,
    preExtract : PreInlineScripts,
    postExtract : InlineScripts,
    preExtractFile : PreScriptFiles,
    postExtractFile : PostScriptFiles,
    omitHeader : {Undefined},
    files : FileLists,
    root : {Undefined, Some(Cwd)},
    output : {Undefined, Some("out.sh")},
    help : BOOLEAN ]

(***************************************************************************)
(* State of one run.                                                       *)
(***************************************************************************)
VARIABLES
  given,         \* the options as parsed from the command line (never changed)
  options,       \* the parsed options; pre/post-extract are overwritten by file reads
  pc,            \* the statement the run is at
  exitCode,      \* the process's exit status, once it has ended
  stderr,        \* the lines written with console.error, in order
  usageShown,    \* the usage text was written with console.log
  files,         \* the entries built from options.files
  outputStream,  \* the sink chosen / opened at the end of validation
  outFileExists, \* the file named by --output has been created or truncated
  written,       \* how much of the script reached the sink
  builderCalls   \* the calls made to makeSelfExtractingScript

vars ==
  <<given, options, pc, exitCode, stderr, usageShown, files, outputStream,
    outFileExists, written, builderCalls>>

NoPath == <<>>
Msg(text, file, name, count) ==
  [text |-> text, file |-> file, name |-> name, count |-> count]

StartOfRun ==
  /\ given = options
  /\ pc = "help"
  /\ exitCode = Undefined
  /\ stderr = <<>>
  /\ usageShown = FALSE
  /\ files = <<>>
  /\ outputStream = Undefined
  /\ outFileExists = FALSE
  /\ written = "none"
  /\ builderCalls = <<>>

Init ==
  /\ options \in OptionsType
  /\ StartOfRun

\* process.exit(code)
Exit(code) ==
  /\ pc' = "exited"
  /\ exitCode' = Some(code)

\* console.error(line); process.exit(1)
Fail(msg) ==
  /\ stderr' = Append(stderr, msg)
  /\ Exit(1)

\* lines 103-123
ShowHelp ==
  /\ pc = "help"
  /\ IF options.help
     THEN /\ usageShown' = TRUE
          /\ Exit(0)
     ELSE /\ pc' = "checkFiles"
          /\ UNCHANGED <<usageShown, exitCode>>
  /\ UNCHANGED <<given, options, stderr, files, outputStream, outFileExists, written, builderCalls>>

\* lines 128-131
CheckFiles ==
  /\ pc = "checkFiles"
  /\ IF Len(options.files) = 0
     THEN Fail(Msg("No files to embed specified", "", NoPath, 0))
     ELSE /\ pc' = "checkPostExtract"
          /\ UNCHANGED <<stderr, exitCode>>
  /\ UNCHANGED <<given, options, usageShown, files, outputStream, outFileExists, written, builderCalls>>

\* The condition of lines 133-136.
NoPostExtract(o) ==
  \/ o.postExtract = Undefined
  \/ (Val(o.postExtract) = "" /\ o.postExtractFile = Undefined)

\* lines 133-139
CheckPostExtract ==
  /\ pc = "checkPostExtract"
  /\ IF NoPostExtract(options)
     THEN Fail(Msg("No post extraction script specified", "", NoPath, 0))
     ELSE /\ pc' = "validateArchiveType"
          /\ UNCHANGED <<stderr, exitCode>>
  /\ UNCHANGED <<given, options, usageShown, files, outputStream, outFileExists, written, builderCalls>>

\* A check that lets any type through.
ValidArchiveTypeAny(t) == TRUE

\* lines 142-143
ValidArchiveType(t) == \E p \in {"tar", "zip"} : p = t

\* lines 141-148
ValidateArchiveType ==
  /\ pc = "validateArchiveType"
  /\ IF ~ValidArchiveType(options.type)
     THEN Fail(Msg("Invalid archive type. Values tar or zip allowed", "", NoPath, 0))
     ELSE /\ pc' = "validateCompressLevel"
          /\ UNCHANGED <<stderr, exitCode>>
  /\ UNCHANGED <<given, options, usageShown, files, outputStream, outFileExists, written, builderCalls>>

\* line 151
validCompressLevels == {n * 10 : n \in 0..9}

\* line 153
ValidCompressLevel(value) ==
  ~(value # Undefined /\ ~(\E p \in validCompressLevels : p = Val(value)))

\* lines 150-161
ValidateCompressLevel ==
  /\ pc = "validateCompressLevel"
  /\ IF ~ValidCompressLevel(options.compressLevel)
     THEN Fail(Msg("Invalid compression level. Values 0-9 allowed", "", NoPath, 0))
     ELSE /\ pc' = "readPreExtractFile"
          /\ UNCHANGED <<stderr, exitCode>>
  /\ UNCHANGED <<given, options, usageShown, files, outputStream, outFileExists, written, builderCalls>>

\* lines 164-172
ReadPreExtractFile ==
  /\ pc = "readPreExtractFile"
  /\ IF options.preExtractFile # Undefined
     THEN LET content == ReadFile(Val(options.preExtractFile))
          IN  IF content # Undefined
              THEN /\ options' = [options EXCEPT !.preExtract = content]
                   /\ pc' = "readPostExtractFile"
                   /\ UNCHANGED <<stderr, exitCode>>
              ELSE /\ Fail(Msg("Failed to read pre-extraction script",
                               Val(options.preExtractFile), NoPath, 0))
                   /\ UNCHANGED options
     ELSE /\ pc' = "readPostExtractFile"
          /\ UNCHANGED <<given, options, stderr, exitCode>>
  /\ UNCHANGED <<given, usageShown, files, outputStream, outFileExists, written, builderCalls>>

\* lines 174-182
ReadPostExtractFile ==
  /\ pc = "readPostExtractFile"
  /\ IF options.postExtractFile # Undefined
     THEN LET content == ReadFile(Val(options.postExtractFile))
          IN  IF content # Undefined
              THEN /\ options' = [options EXCEPT !.postExtract = content]
                   /\ pc' = "buildFileList"
                   /\ UNCHANGED <<stderr, exitCode>>
              ELSE /\ Fail(Msg("Failed to read post-extraction script",
                               Val(options.postExtractFile), NoPath, 0))
                   /\ UNCHANGED options
     ELSE /\ pc' = "buildFileList"
          /\ UNCHANGED <<given, options, stderr, exitCode>>
  /\ UNCHANGED <<given, usageShown, files, outputStream, outFileExists, written, builderCalls>>


\* File modes of line 189: 0o755 and 0o644.
ModeExecutable == 493
ModeDefault == 420

ShExt == <<".", "s", "h">>

\* line 184
ResolvedRoot(o) == IF o.root # Undefined THEN Some(Resolve(Val(o.root))) ELSE Undefined

\* line 189
FileMode(p) == IF ParseExt(p) = ShExt THEN ModeExecutable ELSE ModeDefault

\* A name that ignores the root.
EntryNameFlattened(o, p) == ParseBase(p)

\* line 190
EntryName(o, p) ==
  IF ResolvedRoot(o) # Undefined THEN Relative(Val(ResolvedRoot(o)), p) ELSE ParseBase(p)

\* lines 187-197: one entry per input, in the order given.
FileEntry(o, p) == [filename |-> EntryName(o, p), path |-> Resolve(p), mode |-> FileMode(p)]

BuildFiles(o) == [i \in 1..Len(o.files) |-> FileEntry(o, o.files[i])]

\* lines 184-197
BuildFileList ==
  /\ pc = "buildFileList"
  /\ files' = BuildFiles(options)
  /\ pc' = "checkDuplicates"
  /\ UNCHANGED <<given, options, exitCode, stderr, usageShown, outputStream,
                 outFileExists, written, builderCalls>>

\* lines 200-203: the Map from entry name to the source paths that produce
\* it, as the sequence of its entries in insertion order.
RECURSIVE MapSet(_, _, _)
MapSet(m, key, path) ==
  IF m = <<>> THEN <<[name |-> key, sources |-> <<path>>]>>
  ELSE IF Head(m).name = key
       THEN <<[name |-> key, sources |-> Append(Head(m).sources, path)]>> \o Tail(m)
       ELSE <<Head(m)>> \o MapSet(Tail(m), key, path)

RECURSIVE EntryCountFrom(_, _)
EntryCountFrom(fs, m) ==
  IF fs = <<>> THEN m
  ELSE EntryCountFrom(Tail(fs), MapSet(m, Head(fs).filename, Head(fs).path))

EntryCount(fs) == EntryCountFrom(fs, <<>>)

\* line 205
HasDuplicates(fs) == Len(EntryCount(fs)) # Len(fs)

\* A report of every entry of the Map, shared or not.
IsReportedAlways(entry) == TRUE

\* line 209
IsReported(entry) == Len(entry.sources) # 1

\* lines 208-215: the lines written for the entries of the Map.
RECURSIVE DuplicateLines(_)
DuplicateLines(m) ==
  IF m = <<>> THEN <<>>
  ELSE LET entry == Head(m)
       IN  (IF IsReported(entry)
            THEN <<Msg("Archive would contain path", "", entry.name, Len(entry.sources))>>
                 \o [i \in 1..Len(entry.sources) |-> Msg("From", "", entry.sources[i], 0)]
            ELSE <<>>)
           \o DuplicateLines(Tail(m))

\* lines 199-218
CheckDuplicates ==
  /\ pc = "checkDuplicates"
  /\ IF HasDuplicates(files)
     THEN /\ stderr' = stderr
                \o <<Msg("Archive contains duplicate files", "", NoPath, 0)>>
                \o DuplicateLines(EntryCount(files))
          /\ Exit(1)
     ELSE /\ pc' = "openOutput"
          /\ UNCHANGED <<stderr, exitCode>>
  /\ UNCHANGED <<given, options, usageShown, files, outputStream, outFileExists,
                 written, builderCalls>>

\* line 221: standard output, or a write stream on the --output file.
OpenOutput ==
  /\ pc = "openOutput"
  /\ outputStream' = IF options.output = Undefined THEN Some("stdout") ELSE Some("file")
  /\ pc' = "makeScript"
  /\ UNCHANGED <<given, options, exitCode, stderr, usageShown, files, outFileExists,
                 written, builderCalls>>

\* lines 224-234: the arguments handed to makeSelfExtractingScript.
BuilderCall ==
  [ archiveFormat |-> options.type,
    compressionLevel |-> options.compressLevel,
    omitLibraryHeader |-> options.omitHeader,
    preExtraction |-> options.preExtract,
    postExtraction |-> options.postExtract,
    files |-> files,
    outputStream |-> outputStream ]

\* lines 223-234, the call returning: the script is in the sink and the run
\* ends with status 0.
MakeScriptSucceeds ==
  /\ pc = "makeScript"
  /\ builderCalls' = Append(builderCalls, BuilderCall)
  /\ written' = "complete"
  /\ outFileExists' = (outputStream = Some("file"))
  /\ Exit(0)
  /\ UNCHANGED <<given, options, stderr, usageShown, files, outputStream>>

\* lines 235-237
Catch ==
  /\ Exit(1)
  /\ UNCHANGED stderr

\* lines 223-237, the call throwing (a source file cannot be read, the
\* archive cannot be encoded, the sink cannot be written).  The write stream
\* of line 221 opens its file on its own: by the time the call throws the
\* file may or may not have been created, and some of the script may have
\* been written.
MakeScriptFails ==
  /\ pc = "makeScript"
  /\ builderCalls' = Append(builderCalls, BuilderCall)
  /\ \E w \in {"none", "partial"}, created \in BOOLEAN :
       /\ created => outputStream = Some("file")
       /\ (w = "partial" /\ outputStream = Some("file")) => created
       /\ written' = w
       /\ outFileExists' = created
  /\ Catch
  /\ UNCHANGED <<given, options, usageShown, files, outputStream>>

Next ==
  \/ ShowHelp
  \/ CheckFiles
  \/ CheckPostExtract
  \/ ValidateArchiveType
  \/ ValidateCompressLevel
  \/ ReadPreExtractFile
  \/ ReadPostExtractFile
  \/ BuildFileList
  \/ CheckDuplicates
  \/ OpenOutput
  \/ MakeScriptSucceeds
  \/ MakeScriptFails

Spec == Init /\ [][Next]_vars


(***************************************************************************)
(* Runs whose file list and root vary widely: up to MaxListed inputs, among *)
(* them one file under two spellings, the same base name in two            *)
(* directories, and an absolute path.                                      *)
(***************************************************************************)
ListedPaths ==
  { <<"a", ".", "s", "h">>,
    <<".", "/", "a", ".", "s", "h">>,
    <<"d", "/", "a", ".", "s", "h">>,
    <<"/", "w", "/", "b", ".", "t">> }

ListedOptions ==
  [ type : {"zip", "rar"},
    compressLevel : {Undefined},
    preExtract : {Undefined},
    postExtract : {Undefined, Some("echo inline")},
    preExtractFile : {Undefined},
    postExtractFile : {Undefined, Some("post.sh")},
    omitHeader : {Undefined, Some(TRUE)},
    files : SeqsUpTo(ListedPaths, MaxListed),
    root : Roots,
    output : {Undefined, Some("out.sh")},
    help : BOOLEAN ]

InitFiles ==
  /\ options \in ListedOptions
  /\ StartOfRun

SpecFiles == InitFiles /\ [][Next]_vars

(***************************************************************************)
(* Runs on one input whose path is any string of up to MaxNameLen          *)
(* characters.                                                             *)
(***************************************************************************)
NameChars == {"a", "s", "h", "S", Dot, Slash}

NamedOptions ==
  [ type : {"tar"},
    compressLevel : {Undefined},
    preExtract : {Undefined},
    postExtract : {Some("echo inline")},
    preExtractFile : {Undefined},
    postExtractFile : {Undefined},
    omitHeader : {Undefined},
    files : {<<p>> : p \in SeqsUpTo(NameChars, MaxNameLen)},
    root : {Undefined, Some(<<"/", "w">>)},
    output : {Undefined},
    help : {FALSE} ]

InitNames ==
  /\ options \in NamedOptions
  /\ StartOfRun

SpecNames == InitNames /\ [][Next]_vars


(***************************************************************************)
(* Vocabulary of the properties, stated on the options as given.           *)
(***************************************************************************)
Ended == pc = "exited"
ExitedWith(code) == Ended /\ exitCode = Some(code)
BuilderInvoked == builderCalls # <<>>
SinkUntouched == outputStream = Undefined /\ ~outFileExists /\ written = "none"
Emitted(text) == \E k \in 1..Len(stderr) : stderr[k].text = text
EmittedNaming(text, file) ==
  \E k \in 1..Len(stderr) : stderr[k].text = text /\ stderr[k].file = file

EndsWith(s, suffix) ==
  /\ Len(s) >= Len(suffix)
  /\ SubSeq(s, Len(s) - Len(suffix) + 1, Len(s)) = suffix

TypeOk(g) == g.type = "tar" \/ g.type = "zip"
LevelOk(g) ==
  \/ g.compressLevel = Undefined
  \/ \E n \in 0..9 : Val(g.compressLevel) = 10 * n
FilesOk(g) == Len(g.files) > 0
InlinePostSupplied(g) == g.postExtract # Undefined /\ Val(g.postExtract) # ""
PostFileSupplied(g) == g.postExtractFile # Undefined
PostScriptSupplied(g) == InlinePostSupplied(g) \/ PostFileSupplied(g)
Readable(f) == f # Undefined => ReadFile(Val(f)) # Undefined
ScriptFilesReadable(g) == Readable(g.preExtractFile) /\ Readable(g.postExtractFile)

\* The inputs whose entry name is shared with another input.
NameOf(g, i) == EntryName(g, g.files[i])
Colliding(g) ==
  {i \in 1..Len(g.files) : \E j \in 1..Len(g.files) : j # i /\ NameOf(g, j) = NameOf(g, i)}
DuplicateNames(g) == Colliding(g) # {}

ViolatesValidation(g) ==
  \/ ~TypeOk(g)
  \/ ~LevelOk(g)
  \/ ~FilesOk(g)
  \/ ~PostScriptSupplied(g)
  \/ ~ScriptFilesReadable(g)
  \/ DuplicateNames(g)

\* Everything but the post-extraction script options is valid.
OthersValid(g) ==
  /\ ~g.help
  /\ TypeOk(g)
  /\ LevelOk(g)
  /\ FilesOk(g)
  /\ Readable(g.preExtractFile)
  /\ ~DuplicateNames(g)

(***************************************************************************)
(* C1.  Post-extraction script validation: with all other options valid, a *)
(* run that gives neither --post-extract nor --post-extract-file fails     *)
(* validation, and a run that gives exactly one of them (inline text       *)
(* alone, or a readable file alone) passes validation and reaches the      *)
(* script builder.  The code rejects a --post-extract-file given alone.    *)
(***************************************************************************)
C1_PostExtractValidation ==
  (Ended /\ OthersValid(given) /\ Readable(given.postExtractFile)) =>
    /\ ~PostScriptSupplied(given) =>
         (ExitedWith(1) /\ ~BuilderInvoked /\ Emitted("No post extraction script specified"))
    /\ (InlinePostSupplied(given) /\ ~PostFileSupplied(given)) => BuilderInvoked
    /\ (PostFileSupplied(given) /\ given.postExtract = Undefined) => BuilderInvoked

(***************************************************************************)
(* C2.  Script-file precedence: the pre/post-extraction script handed to   *)
(* the builder is the content of the script file when one is given and the *)
(* inline text unchanged otherwise; with the rest of the request valid, a  *)
(* script file that cannot be read ends the run with exit code 1 and an    *)
(* error naming that file.  The code reports a missing post-extraction     *)
(* script instead when the unreadable file is given without inline text.   *)
(***************************************************************************)
C2_ScriptFilePrecedence ==
  /\ \A k \in 1..Len(builderCalls) :
       /\ builderCalls[k].preExtraction =
            (IF given.preExtractFile # Undefined
             THEN ReadFile(Val(given.preExtractFile)) ELSE given.preExtract)
       /\ builderCalls[k].postExtraction =
            (IF given.postExtractFile # Undefined
             THEN ReadFile(Val(given.postExtractFile)) ELSE given.postExtract)
  /\ (Ended /\ ~given.help /\ TypeOk(given) /\ LevelOk(given) /\ FilesOk(given)
        /\ PostScriptSupplied(given)) =>
       /\ ~Readable(given.preExtractFile) =>
            /\ ExitedWith(1)
            /\ EmittedNaming("Failed to read pre-extraction script", Val(given.preExtractFile))
       /\ (Readable(given.preExtractFile) /\ ~Readable(given.postExtractFile)) =>
            /\ ExitedWith(1)
            /\ EmittedNaming("Failed to read post-extraction script", Val(given.postExtractFile))

(***************************************************************************)
(* C3.  Fail-fast validation: for a request that violates any validation   *)
(* (archive type, compression level, empty file list, no post-extraction   *)
(* script, unreadable script file, duplicate entry names), the sink is     *)
(* never opened or written and the builder is never invoked, and unless    *)
(* the run stops at the help display it ends with exit code 1.             *)
(***************************************************************************)
C3_FailFast ==
  ViolatesValidation(given) =>
    /\ SinkUntouched
    /\ ~BuilderInvoked
    /\ pc \notin {"openOutput", "makeScript"}
    /\ (Ended /\ ~given.help) => exitCode = Some(1)

C3_Witness ==
  /\ ExitedWith(1)
  /\ ~given.help
  /\ TypeOk(given) /\ LevelOk(given) /\ FilesOk(given) /\ PostScriptSupplied(given)
  /\ ScriptFilesReadable(given)
  /\ DuplicateNames(given)
  /\ given.output # Undefined


\* The (entry name, source path) pairs the error lists: each "From" line
\* under the "Archive would contain path" line before it.
RECURSIVE ReportedPairs(_, _)
ReportedPairs(lines, cur) ==
  IF lines = <<>> THEN <<>>
  ELSE LET l == Head(lines)
       IN  IF l.text = "Archive would contain path"
           THEN ReportedPairs(Tail(lines), l.name)
           ELSE IF l.text = "From"
                THEN <<[name |-> cur, source |-> l.name]>> \o ReportedPairs(Tail(lines), cur)
                ELSE ReportedPairs(Tail(lines), cur)

DuplicateErrorEmitted == Emitted("Archive contains duplicate files")

ReportMatchesCollisions(g) ==
  LET rep == ReportedPairs(stderr, NoPath)
      expected == {[name |-> NameOf(g, i), source |-> Resolve(g.files[i])] : i \in Colliding(g)}
  IN  /\ Range(rep) = expected
      /\ \A e \in expected :
           Cardinality({k \in 1..Len(rep) : rep[k] = e})
             = Cardinality({i \in Colliding(g) :
                              NameOf(g, i) = e.name /\ Resolve(g.files[i]) = e.source})
      /\ \A k \in 1..Len(stderr) :
           stderr[k].text = "Archive would contain path" =>
             /\ stderr[k].count > 1
             /\ stderr[k].count
                  = Cardinality({i \in 1..Len(g.files) : NameOf(g, i) = stderr[k].name})

(***************************************************************************)
(* C4.  Duplicate entry names: a file list in which two or more inputs     *)
(* resolve to the same entry name is rejected (exit code 1, unless the run *)
(* stops at the help display) with the sink untouched and the builder not  *)
(* invoked; when the run gets as far as the entries, the duplicate error   *)
(* is emitted, and it lists, under each shared name, exactly the source    *)
(* paths of the inputs that share it (each as often as it was given) and   *)
(* nothing for an input whose name is not shared.  A file list with        *)
(* pairwise distinct entry names is never rejected as duplicate.           *)
(***************************************************************************)
C4_DuplicateEntryNames ==
  /\ (~SinkUntouched \/ BuilderInvoked) => ~DuplicateNames(given)
  /\ (Ended /\ ~given.help /\ exitCode # Some(1)) => ~DuplicateNames(given)
  /\ (Ended /\ files # <<>> /\ ~DuplicateErrorEmitted) => ~DuplicateNames(given)
  /\ DuplicateErrorEmitted =>
       /\ DuplicateNames(given)
       /\ ExitedWith(1)
       /\ ReportMatchesCollisions(given)

\* Two inputs share a name and a third does not; the error has been emitted.
C4_Witness ==
  /\ ExitedWith(1)
  /\ DuplicateErrorEmitted
  /\ Cardinality(Colliding(given)) = 2
  /\ Len(given.files) = 3
  /\ given.output # Undefined

(***************************************************************************)
(* C5.  File mode by extension.  As claimed: an input whose name ends in   *)
(* ".sh" is passed with mode 0o755 and every other input with 0o644.       *)
(***************************************************************************)
C5_ModeBySuffix ==
  \A i \in 1..Len(files) :
    files[i].mode = (IF EndsWith(ParseBase(given.files[i]), ShExt)
                     THEN ModeExecutable ELSE ModeDefault)

ExpectedMode(base) ==
  IF EndsWith(base, ShExt) /\ Len(base) > Len(ShExt) THEN ModeExecutable ELSE ModeDefault

(***************************************************************************)
(* C5, amended.  An input is passed to the archive with mode 0o755 exactly *)
(* when its base name ends in the case-sensitive ".sh" and has at least    *)
(* one character before it, and with 0o644 otherwise (a file named exactly *)
(* ".sh" is a dot-file without extension); the mode depends on the base    *)
(* name only, whatever the root.                                           *)
(***************************************************************************)
C5_ModeByExtension ==
  /\ \A i \in 1..Len(files) :
       files[i].mode = ExpectedMode(ParseBase(given.files[i]))
  /\ \A k \in 1..Len(builderCalls) :
       /\ Len(builderCalls[k].files) = Len(given.files)
       /\ \A i \in 1..Len(given.files) :
            builderCalls[k].files[i].mode = ExpectedMode(ParseBase(given.files[i]))

\* A shell script has reached the builder as executable, under a root.
C5_Witness ==
  /\ BuilderInvoked
  /\ given.root # Undefined
  /\ given.files[1] = <<"s", Dot, "s", "h">>
  /\ builderCalls[1].files[1].mode = ModeExecutable

NoSlash(name) == \A k \in 1..Len(name) : name[k] # Slash

IsPrefix(a, b) == Len(a) <= Len(b) /\ SubSeq(b, 1, Len(a)) = a

NamedAsClaimed(g, p, name) ==
  IF g.root # Undefined
  THEN LET r == ResolveSegs(Val(g.root))
           t == ResolveSegs(p)
       IN  /\ ResolveSegs(Resolve(Val(g.root)) \o <<Slash>> \o name) = t
           /\ IsPrefix(r, t) => name = Join(SubSeq(t, Len(r) + 1, Len(t)))
  ELSE /\ NoSlash(name)
       /\ \/ p = name
          \/ EndsWith(p, <<Slash>> \o name)

SameBaseDifferentDirectory(p, q) ==
  /\ ParseBase(p) = ParseBase(q)
  /\ Resolve(p) # Resolve(q)

EntriesAsClaimed(g, fs) ==
  /\ Len(fs) = Len(g.files)
  /\ \A i \in 1..Len(g.files) :
       /\ fs[i].path = Resolve(g.files[i])
       /\ NamedAsClaimed(g, g.files[i], fs[i].filename)
  /\ \A i, j \in 1..Len(g.files) :
       SameBaseDifferentDirectory(g.files[i], g.files[j]) =>
         IF g.root = Undefined
         THEN fs[i].filename = fs[j].filename
         ELSE fs[i].filename # fs[j].filename

(***************************************************************************)
(* C6.  Entry naming.  With --root, an entry's name is its input made      *)
(* relative to the absolute root: the root joined with the name is the     *)
(* input's absolute path, and an input below the root is named by its path *)
(* below the root, so inputs with one base name in different directories   *)
(* get different names and are not rejected as duplicates.  Without        *)
(* --root, the name is the input's base name with every directory          *)
(* discarded, so such inputs collide.  Entries reach the builder in the    *)
(* order the inputs were given.                                            *)
(***************************************************************************)
C6_EntryNaming ==
  /\ pc \in {"checkDuplicates", "openOutput", "makeScript"} => EntriesAsClaimed(given, files)
  /\ \A k \in 1..Len(builderCalls) : EntriesAsClaimed(given, builderCalls[k].files)
  /\ (Ended /\ files # <<>> /\ given.root = Undefined
        /\ \E i, j \in 1..Len(given.files) :
             SameBaseDifferentDirectory(given.files[i], given.files[j]))
       => DuplicateErrorEmitted

\* With a root, a.sh and d/a.sh and an absolute path have reached the builder
\* under three names, in the order given.
C6_Witness ==
  /\ BuilderInvoked
  /\ given.root # Undefined
  /\ Len(given.files) = 3
  /\ \E i, j \in 1..3 : SameBaseDifferentDirectory(given.files[i], given.files[j])
  /\ IsAbsolute(given.files[3])
  /\ builderCalls[1].files[1].filename # builderCalls[1].files[2].filename

(***************************************************************************)
(* C7.  Atomic output on encode failure: when validation passes and the    *)
(* builder fails, the run ends with exit code 1 and nothing of the script  *)
(* has been written to the sink; with --output, no created, truncated or   *)
(* partly written file is left behind.  The code opens the sink before the *)
(* builder runs and does not remove it when the builder fails.             *)
(***************************************************************************)
C7_AtomicOutput ==
  (BuilderInvoked /\ Ended /\ exitCode # Some(0)) =>
    /\ exitCode = Some(1)
    /\ written = "none"
    /\ ~outFileExists

(***************************************************************************)
(* C8.  Error reporting: a run that ends with a non-zero status has        *)
(* emitted an error message first.  The catch around the builder exits     *)
(* with status 1 without writing anything.                                 *)
(***************************************************************************)
C8_ErrorReported ==
  (Ended /\ exitCode # Some(0)) => stderr # <<>>

(***************************************************************************)
(* C10.  At every call of the builder the post-extraction script is a      *)
(* non-empty string, the archive format is tar or zip, the compression     *)
(* level is absent or an integer 0..9, and the file list is non-empty with *)
(* pairwise distinct entry names.  The code hands over an empty script     *)
(* when the --post-extract-file is an empty file.                          *)
(***************************************************************************)
C10_BuilderPreconditions ==
  \A k \in 1..Len(builderCalls) :
    LET c == builderCalls[k]
    IN  /\ c.postExtraction # Undefined
        /\ Val(c.postExtraction) # ""
        /\ c.archiveFormat \in {"tar", "zip"}
        /\ \/ c.compressionLevel = Undefined
           \/ \E n \in 0..9 : Val(c.compressionLevel) = 10 * n
        /\ Len(c.files) > 0
        /\ \A i, j \in 1..Len(c.files) : i # j => c.files[i].filename # c.files[j].filename

====
